---- MODULE Spec2Model ----
(***************************************************************************)
(* michel-bot: bridge between the Seerr issue webhook and a Matrix room.   *)
(*                                                                         *)
(* The model has one process per inbound event (a webhook delivery or a    *)
(* room message).  Every await of the Rust code (a database query, a       *)
(* Matrix send, a Seerr HTTP call) is one atomic step, and each of them    *)
(* may fail; steps of different invocations interleave freely.             *)
(*                                                                         *)
(* Text is a sequence of one-character strings, Option<T> is a sequence of *)
(* length at most one.                                                     *)
(***************************************************************************)
EXTENDS Integers, Sequences, FiniteSets, TLC

(***************************************************************************)
(* Bounds of the model.                                                    *)
(***************************************************************************)
\* number of inbound events (webhook deliveries and room messages) handled
MaxInv == 3
\* number of invocations that may be in flight at the same time
MaxInFlight == 2
\* issue ids are 1..MaxIssue
MaxIssue == 2

\* longest run of whitespace put in front of, and inside, a message body
MaxPad == 2

\* longest text put after the subcommand of a message body
MaxTail == 5

\* largest event id handed to db.rs when it is called directly
MaxEventId == 2

(***************************************************************************)
(* Option<T>                                                               *)
(***************************************************************************)
None == <<>>

Some(x) == <<x>>

is_some(o) == Len(o) = 1

unwrap(o) == o[1]

(***************************************************************************)
(* str helpers of the Rust standard library used by parse_command.         *)
(***************************************************************************)
\* char::is_whitespace, restricted to the characters of the model's alphabet
WhiteSpace == {" ", "\t", "\n"}

RECURSIVE trim_start(_)
trim_start(s) ==
    IF s # <<>> /\ Head(s) \in WhiteSpace THEN trim_start(Tail(s)) ELSE s

RECURSIVE trim_end(_)
trim_end(s) ==
    IF s # <<>> /\ s[Len(s)] \in WhiteSpace
    THEN trim_end(SubSeq(s, 1, Len(s) - 1))
    ELSE s

trim(s) == trim_end(trim_start(s))

starts_with(s, p) == Len(s) >= Len(p) /\ SubSeq(s, 1, Len(p)) = p

ends_with(s, p) ==
    Len(s) >= Len(p) /\ SubSeq(s, Len(s) - Len(p) + 1, Len(s)) = p

\* str::strip_prefix: Some(rest) when s starts with p, None otherwise
strip_prefix(s, p) ==
    IF starts_with(s, p) THEN Some(SubSeq(s, Len(p) + 1, Len(s))) ELSE None

\* str::strip_suffix: Some(front) when s ends with p, None otherwise
strip_suffix(s, p) ==
    IF ends_with(s, p) THEN Some(SubSeq(s, 1, Len(s) - Len(p))) ELSE None

unwrap_or(o, d) == IF is_some(o) THEN unwrap(o) ELSE d

(***************************************************************************)
(* commands.rs: the command grammar.                                       *)
(***************************************************************************)
KwIssues == <<"!", "i", "s", "s", "u", "e", "s">>

KwResolve == <<"r", "e", "s", "o", "l", "v", "e">>

Quote == <<"\"">>

Resolve(comment) == [cmd |-> "Resolve", comment |-> comment]

\* bug: the subcommand is searched anywhere in the body
parse_command_anywhere(body0) ==
    LET body == trim(body0)
    IN  IF \E k \in 0 .. Len(body) - Len(KwResolve) :
              SubSeq(body, k + 1, k + Len(KwResolve)) = KwResolve
        THEN Some(Resolve(None))
        ELSE None

\* bug: the body is not trimmed before the prefix is stripped
parse_command_no_trim(body0) ==
    LET body == body0
        r0 == strip_prefix(body, KwIssues)
    IN  IF ~is_some(r0) THEN None
        ELSE
        LET rest0 == trim_start(unwrap(r0))
            r1 == strip_prefix(rest0, KwResolve)
        IN  IF ~is_some(r1) THEN None
            ELSE
            LET rest == trim(unwrap(r1))
                q == strip_prefix(rest, Quote)
            IN  IF rest = <<>> THEN Some(Resolve(None))
                ELSE IF is_some(q)
                THEN LET inner == unwrap(q)
                         comment == unwrap_or(strip_suffix(inner, Quote), inner)
                     IN  IF comment = <<>>
                         THEN Some(Resolve(None))
                         ELSE Some(Resolve(Some(comment)))
                ELSE Some(Resolve(Some(rest)))

\* bug: the text after `resolve` is not trimmed
parse_command_rest_untrimmed(body0) ==
    LET body == trim(body0)
        r0 == strip_prefix(body, KwIssues)
    IN  IF ~is_some(r0) THEN None
        ELSE
        LET rest0 == trim_start(unwrap(r0))
            r1 == strip_prefix(rest0, KwResolve)
        IN  IF ~is_some(r1) THEN None
            ELSE
            LET rest == unwrap(r1)
                q == strip_prefix(rest, Quote)
            IN  IF rest = <<>> THEN Some(Resolve(None))
                ELSE IF is_some(q)
                THEN LET inner == unwrap(q)
                         comment == unwrap_or(strip_suffix(inner, Quote), inner)
                     IN  IF comment = <<>>
                         THEN Some(Resolve(None))
                         ELSE Some(Resolve(Some(comment)))
                ELSE Some(Resolve(Some(rest)))

\* bug: the closing quote is not stripped from a quoted comment
parse_command_keep_closing_quote(body0) ==
    LET body == trim(body0)
        r0 == strip_prefix(body, KwIssues)
    IN  IF ~is_some(r0) THEN None
        ELSE
        LET rest0 == trim_start(unwrap(r0))
            r1 == strip_prefix(rest0, KwResolve)
        IN  IF ~is_some(r1) THEN None
            ELSE
            LET rest == trim(unwrap(r1))
                q == strip_prefix(rest, Quote)
            IN  IF rest = <<>> THEN Some(Resolve(None))
                ELSE IF is_some(q)
                THEN LET inner == unwrap(q)
                         comment == inner
                     IN  IF comment = <<>>
                         THEN Some(Resolve(None))
                         ELSE Some(Resolve(Some(comment)))
                ELSE Some(Resolve(Some(rest)))

\* bug: an empty quoted comment is kept as Some("")
parse_command_keep_empty(body0) ==
    LET body == trim(body0)
        r0 == strip_prefix(body, KwIssues)
    IN  IF ~is_some(r0) THEN None
        ELSE
        LET rest0 == trim_start(unwrap(r0))
            r1 == strip_prefix(rest0, KwResolve)
        IN  IF ~is_some(r1) THEN None
            ELSE
            LET rest == trim(unwrap(r1))
                q == strip_prefix(rest, Quote)
            IN  IF rest = <<>> THEN Some(Resolve(None))
                ELSE IF is_some(q)
                THEN LET inner == unwrap(q)
                         comment == unwrap_or(strip_suffix(inner, Quote), inner)
                     IN  IF FALSE
                         THEN Some(Resolve(None))
                         ELSE Some(Resolve(Some(comment)))
                ELSE Some(Resolve(Some(rest)))

\* fn parse_command(body: &str) -> Option<Command>
parse_command(body0) ==
    LET body == trim(body0)
        r0 == strip_prefix(body, KwIssues)
    IN  IF ~is_some(r0) THEN None
        ELSE
        LET rest0 == trim_start(unwrap(r0))
            r1 == strip_prefix(rest0, KwResolve)
        IN  IF ~is_some(r1) THEN None
            ELSE
            LET rest == trim(unwrap(r1))
                q == strip_prefix(rest, Quote)
            IN  IF rest = <<>> THEN Some(Resolve(None))
                ELSE IF is_some(q)
                THEN LET inner == unwrap(q)
                         comment == unwrap_or(strip_suffix(inner, Quote), inner)
                     IN  IF comment = <<>>
                         THEN Some(Resolve(None))
                         ELSE Some(Resolve(Some(comment)))
                ELSE Some(Resolve(Some(rest)))


(***************************************************************************)
(* Formatting of the confirmation text (format! with an i64).              *)
(***************************************************************************)
Digits == <<"0", "1", "2", "3", "4", "5", "6", "7", "8", "9">>

RECURSIVE to_decimal(_)
to_decimal(n) ==
    IF n < 10 THEN <<Digits[n + 1]>>
    ELSE to_decimal(n \div 10) \o <<Digits[(n % 10) + 1]>>

\* i64 as Display
to_string(n) == IF n < 0 THEN <<"-">> \o to_decimal(0 - n) ELSE to_decimal(n)

\* format!("Issue {issue_id} resolved")
plain_resolved(issue_id) ==
    <<"I", "s", "s", "u", "e", " ">> \o to_string(issue_id)
        \o <<" ", "r", "e", "s", "o", "l", "v", "e", "d">>

\* format!("<b>Issue {issue_id} resolved</b>")
html_resolved(issue_id) ==
    <<"<", "b", ">">> \o plain_resolved(issue_id) \o <<"<", "/", "b", ">">>

(***************************************************************************)
(* Configuration and inputs.                                               *)
(***************************************************************************)
\* CommandContext.admin_users (MATRIX_ADMIN_USERS)
admin_users == {"@issueadmin:localhost"}

\* senders of room messages
Users == {"@issueadmin:localhost", "@observer:localhost"}

\* the bridged room
RoomId == "!room:localhost"

IssueIds == 1 .. MaxIssue

\* event ids handed to db.rs when it is called directly
DbEventIds == 1 .. MaxEventId

BodyResolve ==
    KwIssues \o <<" ">> \o KwResolve

BodyResolveComment ==
    KwIssues \o <<" ">> \o KwResolve \o <<" ", "\"", "o", "k", "\"">>

BodyHello == <<"h", "e", "l", "l", "o">>

\* message bodies delivered to the room
Bodies == {BodyResolve, BodyResolveComment, BodyHello}

\* all texts over alphabet S of length at most n
TextsUpTo(S, n) == UNION {[1 .. k -> S] : k \in 0 .. n}

\* whitespace in front of a body, and between `!issues` and the subcommand
LeadPads == TextsUpTo({" ", "\t"}, MaxPad)

SepPads == TextsUpTo({" "}, MaxPad)

\* first words: the command prefix and two near misses
Heads == {KwIssues, <<"!", "i", "s", "s", "u", "e">>,
          <<"i", "s", "s", "u", "e", "s">>}

\* subcommand words: resolve, a longer word, another word, none
Subs == {KwResolve, KwResolve \o <<"d">>,
         <<"u", "n", "k", "n", "o", "w", "n">>, <<>>}

\* what follows the subcommand: letters, blanks and quotes
Tails == TextsUpTo({"a", " ", "\""}, MaxTail)

\* the message bodies handed to parse_command
ParseBodies ==
    {lead \o head \o sep \o sub \o tail :
        lead \in LeadPads, head \in Heads, sep \in SepPads,
        sub \in Subs, tail \in Tails}

NotificationKinds == {"IssueCreated", "IssueComment", "IssueResolved", "Other"}

(***************************************************************************)
(* State.                                                                  *)
(***************************************************************************)
VARIABLES
    issue_events,   \* the issue_events table, rows in insertion order
    effects,        \* every remote call made so far (Seerr API, Matrix), in order
    inv             \* the invocations: one per inbound event

vars == <<issue_events, effects, inv>>

Invs == 1 .. MaxInv

\* Relation of a room message: none, a thread relation, or another relation
NoRelation == [rel |-> "none", event_id |-> 0]

Thread(e) == [rel |-> "thread", event_id |-> e]

Reply(e) == [rel |-> "reply", event_id |-> e]

\* db::IssueEvent / one row of issue_events
IssueEvent(issue_id, matrix_event_id, matrix_room_id, reaction_event_id) ==
    [issue_id |-> issue_id, matrix_event_id |-> matrix_event_id,
     matrix_room_id |-> matrix_room_id, reaction_event_id |-> reaction_event_id]

\* an invocation that has not been started
Idle ==
    [kind |-> "none", pc |-> "idle", issue_id |-> 0, sender |-> "",
     body |-> <<>>, relates_to |-> NoRelation, issue_event |-> None,
     event_id |-> 0, command |-> None, result |-> "none"]

\* one remote call: who made it, what, on what, and whether it succeeded
Effect(i, op, ok, issue_id, target, text, html) ==
    [inv |-> i, op |-> op, ok |-> ok, issue_id |-> issue_id,
     target |-> target, text |-> text, html |-> html]

\* Matrix event ids: 0 is an event not sent by the bot, k > 0 is the event
\* the bot's k-th remote call created
SendOps == {"send_html_message", "send_thread_reply", "send_reaction"}

EventIds ==
    {0} \cup {k \in 1 .. Len(effects) : effects[k].ok /\ effects[k].op \in SendOps}

Init ==
    /\ issue_events = <<>>
    /\ effects = <<>>
    /\ inv = [i \in Invs |-> Idle]

(***************************************************************************)
(* db.rs                                                                   *)
(***************************************************************************)
SelectIssueId(table, issue_id) ==
    SelectSeq(table, LAMBDA r : r.issue_id = issue_id)

SelectMatrixEventId(table, matrix_event_id) ==
    SelectSeq(table, LAMBDA r : r.matrix_event_id = matrix_event_id)

\* fetch_optional: the first row of the result, if any
fetch_optional(rows) == IF rows = <<>> THEN None ELSE Some(rows[1])

\* bug: the WHERE clause compares the wrong column and matches no row
get_issue_event_no_match(table, issue_id) ==
    fetch_optional(SelectMatrixEventId(table, issue_id))

\* bug: the WHERE clause is missing, the first row of the table is returned
get_issue_event_first_row(table, issue_id) ==
    fetch_optional(table)

\* bug: the row is mapped with matrix_event_id read from the issue_id column
get_issue_event_root_from_issue_id(table, issue_id) ==
    LET rows == SelectIssueId(table, issue_id)
    IN  IF rows = <<>> THEN None
        ELSE Some([rows[1] EXCEPT !.matrix_event_id = rows[1].issue_id])

\* bug: the row is read without its reaction_event_id
get_issue_event_without_marker(table, issue_id) ==
    LET rows == SelectIssueId(table, issue_id)
    IN  IF rows = <<>> THEN None
        ELSE Some([rows[1] EXCEPT !.reaction_event_id = None])

\* SELECT ... FROM issue_events WHERE issue_id = $1
get_issue_event(table, issue_id) ==
    fetch_optional(SelectIssueId(table, issue_id))

\* bug: the WHERE clause is missing, the first row of the table is returned
get_issue_event_by_matrix_event_id_first_row(table, matrix_event_id) ==
    fetch_optional(table)

\* bug: the WHERE clause also matches the event id of the marker
get_issue_event_by_matrix_event_id_any_column(table, matrix_event_id) ==
    fetch_optional(SelectSeq(table,
        LAMBDA r : \/ r.matrix_event_id = matrix_event_id
                   \/ r.reaction_event_id = Some(matrix_event_id)))

\* SELECT ... FROM issue_events WHERE matrix_event_id = $1
get_issue_event_by_matrix_event_id(table, matrix_event_id) ==
    fetch_optional(SelectMatrixEventId(table, matrix_event_id))

\* migrations/001_create_issue_events.sql: issue_id is the unique key
UniqueViolation(table, issue_id) == SelectIssueId(table, issue_id) # <<>>

\* bug: INSERT ... ON CONFLICT (issue_id) DO UPDATE overwrites the record
insert_issue_event_upsert(table, issue_id, matrix_event_id, matrix_room_id) ==
    IF UniqueViolation(table, issue_id)
    THEN [ok |-> TRUE,
          table |-> [k \in 1 .. Len(table) |->
                       IF table[k].issue_id = issue_id
                       THEN IssueEvent(issue_id, matrix_event_id,
                                       matrix_room_id, None)
                       ELSE table[k]]]
    ELSE [ok |-> TRUE,
          table |-> Append(table,
                       IssueEvent(issue_id, matrix_event_id, matrix_room_id, None))]

\* bug: the row is inserted whatever the table holds
insert_issue_event_no_constraint(table, issue_id, matrix_event_id, matrix_room_id) ==
    [ok |-> TRUE,
     table |-> Append(table,
                  IssueEvent(issue_id, matrix_event_id, matrix_room_id, None))]

\* INSERT: [ok, table]; the row is rejected when it breaks the unique key
insert_issue_event(table, issue_id, matrix_event_id, matrix_room_id) ==
    IF UniqueViolation(table, issue_id)
    THEN [ok |-> FALSE, table |-> table]
    ELSE [ok |-> TRUE,
          table |-> Append(table,
                       IssueEvent(issue_id, matrix_event_id, matrix_room_id, None))]

\* bug: the UPDATE sets the column of the root message
set_reaction_event_id_wrong_column(table, issue_id, reaction_event_id) ==
    [k \in 1 .. Len(table) |->
        IF table[k].issue_id = issue_id
        THEN [table[k] EXCEPT !.matrix_event_id = reaction_event_id]
        ELSE table[k]]

\* bug: the UPDATE has no WHERE clause and changes every row
set_reaction_event_id_all_rows(table, issue_id, reaction_event_id) ==
    [k \in 1 .. Len(table) |->
        [table[k] EXCEPT !.reaction_event_id = Some(reaction_event_id)]]

\* bug: SET reaction_event_id = reaction_event_id || $1 adds to the stored id
\* instead of replacing it
set_reaction_event_id_appends(table, issue_id, reaction_event_id) ==
    [k \in 1 .. Len(table) |->
        IF table[k].issue_id = issue_id
        THEN [table[k] EXCEPT !.reaction_event_id =
                 IF is_some(table[k].reaction_event_id)
                 THEN Some(unwrap(table[k].reaction_event_id) + reaction_event_id)
                 ELSE Some(reaction_event_id)]
        ELSE table[k]]

\* UPDATE ... SET reaction_event_id = $1 WHERE issue_id = $2
set_reaction_event_id(table, issue_id, reaction_event_id) ==
    [k \in 1 .. Len(table) |->
        IF table[k].issue_id = issue_id
        THEN [table[k] EXCEPT !.reaction_event_id = Some(reaction_event_id)]
        ELSE table[k]]

\* bug: the UPDATE filters on the wrong column and changes no row
clear_reaction_event_id_no_row(table, issue_id) ==
    [k \in 1 .. Len(table) |->
        IF table[k].matrix_event_id = issue_id
        THEN [table[k] EXCEPT !.reaction_event_id = None]
        ELSE table[k]]

\* bug: the statement deletes the row instead of clearing the column
clear_reaction_event_id_deletes_row(table, issue_id) ==
    SelectSeq(table, LAMBDA r : r.issue_id # issue_id)

\* UPDATE ... SET reaction_event_id = NULL WHERE issue_id = $1
clear_reaction_event_id(table, issue_id) ==
    [k \in 1 .. Len(table) |->
        IF table[k].issue_id = issue_id
        THEN [table[k] EXCEPT !.reaction_event_id = None]
        ELSE table[k]]


(***************************************************************************)
(* Invocations.                                                            *)
(***************************************************************************)
InFlight == {j \in Invs : inv[j].pc \notin {"idle", "done"}}

\* invocations are numbered in arrival order
CanStart(i) ==
    /\ inv[i].pc = "idle"
    /\ i > 1 => inv[i - 1].pc # "idle"
    /\ Cardinality(InFlight) < MaxInFlight

\* bug: an error is not swallowed by the event handler: it ends the loop and
\* with it every invocation in flight
Return_stops_loop(i, result) ==
    inv' = [j \in Invs |->
              IF j = i THEN [inv[j] EXCEPT !.pc = "done", !.result = result]
              ELSE IF result # "ok" /\ inv[j].pc \notin {"idle", "done"}
              THEN [inv[j] EXCEPT !.pc = "done", !.result = result]
              ELSE inv[j]]

\* the invocation returns: Ok(()) or Err(e) propagated by `?`; "err" is the
\* error of a remote call, "db_err" the sqlx error of a failed query
Return(i, result) ==
    inv' = [inv EXCEPT ![i].pc = "done", ![i].result = result]

Goto(i, pc) == inv' = [inv EXCEPT ![i].pc = pc]

Record(e) == effects' = Append(effects, e)

(***************************************************************************)
(* commands.rs: handle_message, one action per await.                      *)
(***************************************************************************)
\* bug: only checks that an allow-list is configured
is_admin_unchecked(sender) == admin_users # {}

\* ctx.admin_users.iter().any(|u| u == &event.sender)
is_admin(sender) == \E u \in admin_users : u = sender

\* the comment of the command the invocation parsed
comment_of(i) == unwrap(inv[i].command).comment

\* bug: any relation, not only a thread relation, names the thread root
on_room_message_any_relation(i, sender, body, relates_to) ==
    /\ CanStart(i)
    /\ LET received == [inv[i] EXCEPT !.kind = "message", !.sender = sender,
                                     !.body = body, !.relates_to = relates_to]
           started == [received EXCEPT !.command = parse_command(body)]
           returned == [started EXCEPT !.pc = "done", !.result = "ok"]
       IN  inv' = [inv EXCEPT ![i] =
                     IF ~is_admin(sender)
                     THEN [received EXCEPT !.pc = "done", !.result = "ok"]
                     ELSE IF ~is_some(started.command) THEN returned
                     ELSE IF relates_to.rel = "none" THEN returned
                     ELSE [started EXCEPT !.pc = "cmd_get_issue_event"]]
    /\ UNCHANGED <<issue_events, effects>>

\* a room message arrives: the admin check, the parse and the thread check
on_room_message(i, sender, body, relates_to) ==
    /\ CanStart(i)
    /\ LET received == [inv[i] EXCEPT !.kind = "message", !.sender = sender,
                                     !.body = body, !.relates_to = relates_to]
           started == [received EXCEPT !.command = parse_command(body)]
           returned == [started EXCEPT !.pc = "done", !.result = "ok"]
       IN  inv' = [inv EXCEPT ![i] =
                     IF ~is_admin(sender)
                     THEN [received EXCEPT !.pc = "done", !.result = "ok"]
                     ELSE IF ~is_some(started.command) THEN returned
                     ELSE IF relates_to.rel # "thread" THEN returned
                     ELSE [started EXCEPT !.pc = "cmd_get_issue_event"]]
    /\ UNCHANGED <<issue_events, effects>>

\* bug: the comment is dropped, the command goes straight to resolve
cmd_get_issue_event_skip_comment(i) ==
    /\ inv[i].pc = "cmd_get_issue_event"
    /\ \/ Return(i, "db_err")
       \/ LET found == get_issue_event_by_matrix_event_id(
                           issue_events, inv[i].relates_to.event_id)
          IN  IF ~is_some(found)
              THEN Return(i, "ok")
              ELSE inv' = [inv EXCEPT
                             ![i].issue_event = found,
                             ![i].issue_id = unwrap(found).issue_id,
                             ![i].pc = "cmd_resolve_issue"]
    /\ UNCHANGED <<issue_events, effects>>

\* bug: a thread that tracks no issue is reported as an error
cmd_get_issue_event_not_found_err(i) ==
    /\ inv[i].pc = "cmd_get_issue_event"
    /\ \/ Return(i, "db_err")
       \/ LET found == get_issue_event_by_matrix_event_id(
                           issue_events, inv[i].relates_to.event_id)
          IN  IF ~is_some(found)
              THEN Return(i, "err")
              ELSE inv' = [inv EXCEPT
                             ![i].issue_event = found,
                             ![i].issue_id = unwrap(found).issue_id,
                             ![i].pc = IF is_some(comment_of(i))
                                       THEN "cmd_add_comment"
                                       ELSE "cmd_resolve_issue"]
    /\ UNCHANGED <<issue_events, effects>>

\* db::get_issue_event_by_matrix_event_id(thread_root_event_id).await?
cmd_get_issue_event(i) ==
    /\ inv[i].pc = "cmd_get_issue_event"
    /\ \/ Return(i, "db_err")
       \/ LET found == get_issue_event_by_matrix_event_id(
                           issue_events, inv[i].relates_to.event_id)
          IN  IF ~is_some(found)
              THEN Return(i, "ok")
              ELSE inv' = [inv EXCEPT
                             ![i].issue_event = found,
                             ![i].issue_id = unwrap(found).issue_id,
                             ![i].pc = IF is_some(comment_of(i))
                                       THEN "cmd_add_comment"
                                       ELSE "cmd_resolve_issue"]
    /\ UNCHANGED <<issue_events, effects>>

\* bug: the result of add_comment is not propagated with `?`
cmd_add_comment_ignore_failure(i) ==
    /\ inv[i].pc = "cmd_add_comment"
    /\ \E ok \in BOOLEAN :
          /\ Record(Effect(i, "add_comment", ok, inv[i].issue_id, 0,
                           unwrap(comment_of(i)), <<>>))
          /\ Goto(i, "cmd_resolve_issue")
    /\ UNCHANGED issue_events

\* ctx.seerr_client.add_comment(issue_id, comment_text).await?
cmd_add_comment(i) ==
    /\ inv[i].pc = "cmd_add_comment"
    /\ \E ok \in BOOLEAN :
          /\ Record(Effect(i, "add_comment", ok, inv[i].issue_id, 0,
                           unwrap(comment_of(i)), <<>>))
          /\ IF ok THEN Goto(i, "cmd_resolve_issue") ELSE Return(i, "err")
    /\ UNCHANGED issue_events

\* bug: the result of resolve_issue is not propagated with `?`
cmd_resolve_issue_ignore_failure(i) ==
    /\ inv[i].pc = "cmd_resolve_issue"
    /\ \E ok \in BOOLEAN :
          /\ Record(Effect(i, "resolve_issue", ok, inv[i].issue_id, 0, <<>>, <<>>))
          /\ Goto(i, "cmd_send_thread_reply")
    /\ UNCHANGED issue_events

\* bug: a failed resolve_issue is tried once more
cmd_resolve_issue_retry(i) ==
    /\ inv[i].pc = "cmd_resolve_issue"
    /\ \E ok \in BOOLEAN :
          /\ Record(Effect(i, "resolve_issue", ok, inv[i].issue_id, 0, <<>>, <<>>))
          /\ IF ok THEN Goto(i, "cmd_send_thread_reply")
             ELSE IF \E k \in 1 .. Len(effects) :
                        effects[k].inv = i /\ effects[k].op = "resolve_issue"
             THEN Return(i, "err")
             ELSE Goto(i, "cmd_resolve_issue")
    /\ UNCHANGED issue_events

\* ctx.seerr_client.resolve_issue(issue_id).await?
cmd_resolve_issue(i) ==
    /\ inv[i].pc = "cmd_resolve_issue"
    /\ \E ok \in BOOLEAN :
          /\ Record(Effect(i, "resolve_issue", ok, inv[i].issue_id, 0, <<>>, <<>>))
          /\ IF ok THEN Goto(i, "cmd_send_thread_reply") ELSE Return(i, "err")
    /\ UNCHANGED issue_events

\* bug: the confirmation is threaded under the root stored for the issue
\* id read as an event id, not under the thread root of the command
cmd_send_thread_reply_wrong_root(i) ==
    /\ inv[i].pc = "cmd_send_thread_reply"
    /\ \E ok \in BOOLEAN :
          /\ Record(Effect(i, "send_thread_reply", ok, 0,
                           inv[i].issue_id,
                           plain_resolved(inv[i].issue_id),
                           html_resolved(inv[i].issue_id)))
          /\ Return(i, IF ok THEN "ok" ELSE "err")
    /\ UNCHANGED issue_events

\* bug: the command clears the marker of the record once it has replied
cmd_send_thread_reply_clears_marker(i) ==
    /\ inv[i].pc = "cmd_send_thread_reply"
    /\ \E ok \in BOOLEAN :
          /\ Record(Effect(i, "send_thread_reply", ok, 0,
                           inv[i].relates_to.event_id,
                           plain_resolved(inv[i].issue_id),
                           html_resolved(inv[i].issue_id)))
          /\ Return(i, IF ok THEN "ok" ELSE "err")
          /\ issue_events' = IF ok
                             THEN clear_reaction_event_id(issue_events,
                                                          inv[i].issue_id)
                             ELSE issue_events

\* matrix::send_thread_reply(room, thread_root_event_id, &plain, &html).await?
cmd_send_thread_reply(i) ==
    /\ inv[i].pc = "cmd_send_thread_reply"
    /\ \E ok \in BOOLEAN :
          /\ Record(Effect(i, "send_thread_reply", ok, 0,
                           inv[i].relates_to.event_id,
                           plain_resolved(inv[i].issue_id),
                           html_resolved(inv[i].issue_id)))
          /\ Return(i, IF ok THEN "ok" ELSE "err")
    /\ UNCHANGED issue_events


(***************************************************************************)
(* The Notification Router (webhook handler), one action per remote call.  *)
(***************************************************************************)
\* the subject every notification of the model carries
Subject == <<"M", "i", "s", "s", "i", "n", "g">>

\* the status marker put on the root message of an open issue
Marker == <<"o", "p", "e", "n">>

\* a webhook delivery arrives; notifications without an issue id are `Other`
handle_seerr_webhook(i, kind, issue_id) ==
    /\ CanStart(i)
    /\ inv' = [inv EXCEPT ![i].kind = kind, ![i].issue_id = issue_id,
                          ![i].pc = IF kind = "Other"
                                    THEN "wh_send_other"
                                    ELSE "wh_get_issue_event"]
    /\ UNCHANGED <<issue_events, effects>>

\* Other: a plain chat message, no store interaction
wh_send_other(i) ==
    /\ inv[i].pc = "wh_send_other"
    /\ \E ok \in BOOLEAN :
          /\ Record(Effect(i, "send_html_message", ok, 0, 0, Subject, Subject))
          /\ Return(i, IF ok THEN "ok" ELSE "err")
    /\ UNCHANGED issue_events

\* where an IssueCreated goes once the record is known: attach the marker
\* unless one is already recorded
AfterRecord(record) ==
    IF is_some(record.reaction_event_id) THEN "done" ELSE "wh_send_reaction"

\* findByIssueId, and the decision each kind takes on its result
wh_get_issue_event(i) ==
    /\ inv[i].pc = "wh_get_issue_event"
    /\ \/ Return(i, "db_err")
       \/ LET found == get_issue_event(issue_events, inv[i].issue_id)
          IN  CASE inv[i].kind = "IssueCreated" /\ ~is_some(found) ->
                     Goto(i, "wh_send_html_message")
                [] inv[i].kind = "IssueCreated" /\ is_some(found) ->
                     IF AfterRecord(unwrap(found)) = "done"
                     THEN inv' = [inv EXCEPT ![i].issue_event = found,
                                             ![i].pc = "done", ![i].result = "ok"]
                     ELSE inv' = [inv EXCEPT ![i].issue_event = found,
                                             ![i].pc = "wh_send_reaction"]
                [] inv[i].kind # "IssueCreated" /\ ~is_some(found) ->
                     Return(i, "ok")
                [] OTHER ->
                     inv' = [inv EXCEPT ![i].issue_event = found,
                                        ![i].pc = "wh_send_thread_reply"]
    /\ UNCHANGED <<issue_events, effects>>

\* IssueCreated, no record: send the root message and capture its id
wh_send_html_message(i) ==
    /\ inv[i].pc = "wh_send_html_message"
    /\ \E ok \in BOOLEAN :
          /\ Record(Effect(i, "send_html_message", ok, 0, 0, Subject, Subject))
          /\ IF ok
             THEN inv' = [inv EXCEPT ![i].event_id = Len(effects) + 1,
                                     ![i].pc = "wh_insert_issue_event"]
             ELSE Return(i, "err")
    /\ UNCHANGED issue_events

\* createRecord; a duplicate issue id is success-with-skip, not an error
wh_insert_issue_event(i) ==
    /\ inv[i].pc = "wh_insert_issue_event"
    /\ \/ Return(i, "db_err") /\ UNCHANGED issue_events
       \/ LET r == insert_issue_event(issue_events, inv[i].issue_id,
                                      inv[i].event_id, RoomId)
          IN  /\ issue_events' = r.table
              /\ IF r.ok
                 THEN inv' = [inv EXCEPT
                                ![i].issue_event =
                                    Some(IssueEvent(inv[i].issue_id,
                                                    inv[i].event_id, RoomId, None)),
                                ![i].pc = "wh_send_reaction"]
                 ELSE Return(i, "ok")
    /\ UNCHANGED effects

\* addReaction on the root message
wh_send_reaction(i) ==
    /\ inv[i].pc = "wh_send_reaction"
    /\ \E ok \in BOOLEAN :
          /\ Record(Effect(i, "send_reaction", ok, 0,
                           unwrap(inv[i].issue_event).matrix_event_id,
                           Marker, <<>>))
          /\ IF ok
             THEN inv' = [inv EXCEPT ![i].event_id = Len(effects) + 1,
                                     ![i].pc = "wh_set_reaction_event_id"]
             ELSE Return(i, "err")
    /\ UNCHANGED issue_events

\* setStatusMarker(issueId, markerId)
wh_set_reaction_event_id(i) ==
    /\ inv[i].pc = "wh_set_reaction_event_id"
    /\ \/ Return(i, "db_err") /\ UNCHANGED issue_events
       \/ /\ issue_events' = set_reaction_event_id(issue_events, inv[i].issue_id,
                                                   inv[i].event_id)
          /\ Return(i, "ok")
    /\ UNCHANGED effects

\* IssueComment / IssueResolved: the threaded reply under the root message
wh_send_thread_reply(i) ==
    /\ inv[i].pc = "wh_send_thread_reply"
    /\ \E ok \in BOOLEAN :
          /\ Record(Effect(i, "send_thread_reply", ok, 0,
                           unwrap(inv[i].issue_event).matrix_event_id,
                           Subject, Subject))
          /\ IF ~ok THEN Return(i, "err")
             ELSE IF inv[i].kind = "IssueResolved"
                     /\ is_some(unwrap(inv[i].issue_event).reaction_event_id)
             THEN Goto(i, "wh_redact_event")
             ELSE Return(i, "ok")
    /\ UNCHANGED issue_events

\* IssueResolved: removeMarker of the recorded marker
wh_redact_event(i) ==
    /\ inv[i].pc = "wh_redact_event"
    /\ \E ok \in BOOLEAN :
          /\ Record(Effect(i, "redact_event", ok, 0,
                           unwrap(unwrap(inv[i].issue_event).reaction_event_id),
                           <<>>, <<>>))
          /\ IF ok THEN Goto(i, "wh_clear_reaction_event_id") ELSE Return(i, "err")
    /\ UNCHANGED issue_events

\* IssueResolved: setStatusMarker(issueId, absent)
wh_clear_reaction_event_id(i) ==
    /\ inv[i].pc = "wh_clear_reaction_event_id"
    /\ \/ Return(i, "db_err") /\ UNCHANGED issue_events
       \/ /\ issue_events' = clear_reaction_event_id(issue_events, inv[i].issue_id)
          /\ Return(i, "ok")
    /\ UNCHANGED effects

(***************************************************************************)
(* db.rs called directly: one action per function, the call and its       *)
(* result in one step.  A call may fail with an sqlx error.                *)
(***************************************************************************)
\* the call invocation i has made and what it returned
Called(i, kind, issue_id, event_id, issue_event, result) ==
    inv' = [inv EXCEPT ![i] =
              [inv[i] EXCEPT !.kind = kind, !.pc = "done",
                             !.issue_id = issue_id, !.event_id = event_id,
                             !.issue_event = issue_event, !.result = result]]

db_insert_issue_event(i, issue_id, matrix_event_id) ==
    /\ CanStart(i)
    /\ \/ /\ Called(i, "insert_issue_event", issue_id, matrix_event_id,
                     None, "db_err")
          /\ UNCHANGED issue_events
       \/ LET r == insert_issue_event(issue_events, issue_id,
                                      matrix_event_id, RoomId)
          IN  /\ issue_events' = r.table
              /\ Called(i, "insert_issue_event", issue_id, matrix_event_id,
                        None, IF r.ok THEN "ok" ELSE "unique_violation")
    /\ UNCHANGED effects

db_get_issue_event(i, issue_id) ==
    /\ CanStart(i)
    /\ \/ Called(i, "get_issue_event", issue_id, 0, None, "db_err")
       \/ Called(i, "get_issue_event", issue_id, 0,
                 get_issue_event(issue_events, issue_id), "ok")
    /\ UNCHANGED <<issue_events, effects>>

db_set_reaction_event_id(i, issue_id, reaction_event_id) ==
    /\ CanStart(i)
    /\ \/ /\ Called(i, "set_reaction_event_id", issue_id, reaction_event_id,
                     None, "db_err")
          /\ UNCHANGED issue_events
       \/ /\ issue_events' =
                 set_reaction_event_id(issue_events, issue_id, reaction_event_id)
          /\ Called(i, "set_reaction_event_id", issue_id, reaction_event_id,
                    None, "ok")
    /\ UNCHANGED effects

db_clear_reaction_event_id(i, issue_id) ==
    /\ CanStart(i)
    /\ \/ /\ Called(i, "clear_reaction_event_id", issue_id, 0, None, "db_err")
          /\ UNCHANGED issue_events
       \/ /\ issue_events' = clear_reaction_event_id(issue_events, issue_id)
          /\ Called(i, "clear_reaction_event_id", issue_id, 0, None, "ok")
    /\ UNCHANGED effects

db_get_issue_event_by_matrix_event_id(i, matrix_event_id) ==
    /\ CanStart(i)
    /\ \/ Called(i, "get_issue_event_by_matrix_event_id", 0, matrix_event_id,
                 None, "db_err")
       \/ Called(i, "get_issue_event_by_matrix_event_id", 0, matrix_event_id,
                 get_issue_event_by_matrix_event_id(issue_events, matrix_event_id),
                 "ok")
    /\ UNCHANGED <<issue_events, effects>>

(***************************************************************************)
(* The system: events arrive and the invocations handling them interleave. *)
(***************************************************************************)
Relations ==
    {NoRelation} \cup {Thread(e) : e \in EventIds} \cup {Reply(e) : e \in EventIds}

Next ==
    \/ \E i \in Invs, sender \in Users, body \in Bodies, relates_to \in Relations :
          on_room_message(i, sender, body, relates_to)
    \/ \E i \in Invs : cmd_get_issue_event(i)
    \/ \E i \in Invs : cmd_add_comment(i)
    \/ \E i \in Invs : cmd_resolve_issue(i)
    \/ \E i \in Invs : cmd_send_thread_reply(i)
    \/ \E i \in Invs, issue_id \in IssueIds :
          \E kind \in NotificationKinds \ {"Other"} :
             handle_seerr_webhook(i, kind, issue_id)
    \/ \E i \in Invs : handle_seerr_webhook(i, "Other", 0)
    \/ \E i \in Invs : wh_send_other(i)
    \/ \E i \in Invs : wh_get_issue_event(i)
    \/ \E i \in Invs : wh_send_html_message(i)
    \/ \E i \in Invs : wh_insert_issue_event(i)
    \/ \E i \in Invs : wh_send_reaction(i)
    \/ \E i \in Invs : wh_set_reaction_event_id(i)
    \/ \E i \in Invs : wh_send_thread_reply(i)
    \/ \E i \in Invs : wh_redact_event(i)
    \/ \E i \in Invs : wh_clear_reaction_event_id(i)

Spec == Init /\ [][Next]_vars

\* Deliveries handled in sequence: an event arrives only when the invocations
\* of the earlier events have returned.
NextSeq ==
    \/ \E i \in Invs, sender \in Users, body \in Bodies, relates_to \in Relations :
          InFlight = {} /\ on_room_message(i, sender, body, relates_to)
    \/ \E i \in Invs : cmd_get_issue_event(i)
    \/ \E i \in Invs : cmd_add_comment(i)
    \/ \E i \in Invs : cmd_resolve_issue(i)
    \/ \E i \in Invs : cmd_send_thread_reply(i)
    \/ \E i \in Invs, issue_id \in IssueIds :
          \E kind \in NotificationKinds \ {"Other"} :
             InFlight = {} /\ handle_seerr_webhook(i, kind, issue_id)
    \/ \E i \in Invs : InFlight = {} /\ handle_seerr_webhook(i, "Other", 0)
    \/ \E i \in Invs : wh_send_other(i)
    \/ \E i \in Invs : wh_get_issue_event(i)
    \/ \E i \in Invs : wh_send_html_message(i)
    \/ \E i \in Invs : wh_insert_issue_event(i)
    \/ \E i \in Invs : wh_send_reaction(i)
    \/ \E i \in Invs : wh_set_reaction_event_id(i)
    \/ \E i \in Invs : wh_send_thread_reply(i)
    \/ \E i \in Invs : wh_redact_event(i)
    \/ \E i \in Invs : wh_clear_reaction_event_id(i)

SpecSeq == Init /\ [][NextSeq]_vars

\* the confirmations the command handler has sent, as positions of `effects`
ConfirmationsSent ==
    {k \in 1 .. Len(effects) :
        /\ effects[k].ok /\ effects[k].op = "send_thread_reply"
        /\ inv[effects[k].inv].kind = "message"}

\* the sync loop delivers a confirmation of the bot to on_room_message like
\* any other message of the room: the body is its plain text, the relation its
\* thread, and the sender, the bot, is taken to be in the admin allow-list
on_room_echo(i) ==
    \E k \in ConfirmationsSent : \E sender \in admin_users :
        on_room_message(i, sender, effects[k].text, Thread(effects[k].target))

\* events are handled one after another, and the confirmations come back
NextEcho ==
    \/ NextSeq
    \/ InFlight = {} /\ \E i \in Invs : on_room_echo(i)

SpecEcho == Init /\ [][NextEcho]_vars

\* the awaits of invocation i on Matrix and on the database: the request
\* ends, with a result or with an error, whenever the invocation waits on it
TimedStep(i) ==
    \/ cmd_get_issue_event(i)
    \/ cmd_send_thread_reply(i)
    \/ wh_send_other(i)
    \/ wh_get_issue_event(i)
    \/ wh_send_html_message(i)
    \/ wh_insert_issue_event(i)
    \/ wh_send_reaction(i)
    \/ wh_set_reaction_event_id(i)
    \/ wh_send_thread_reply(i)
    \/ wh_redact_event(i)
    \/ wh_clear_reaction_event_id(i)

\* Spec with the runtime polling every task whose await has ended; the two
\* requests to Seerr are sent by reqwest::Client::new(), which sets no
\* timeout, so nothing makes them end
SpecFair == Spec /\ \A i \in Invs : WF_vars(TimedStep(i))

\* the functions of db.rs, called one after another with any arguments
NextDb ==
    \/ \E i \in Invs : \E n \in IssueIds : \E e \in DbEventIds :
          db_insert_issue_event(i, n, e)
    \/ \E i \in Invs : \E n \in IssueIds : db_get_issue_event(i, n)
    \/ \E i \in Invs : \E n \in IssueIds : \E e \in DbEventIds :
          db_set_reaction_event_id(i, n, e)
    \/ \E i \in Invs : \E n \in IssueIds : db_clear_reaction_event_id(i, n)
    \/ \E i \in Invs : \E e \in DbEventIds :
          db_get_issue_event_by_matrix_event_id(i, e)

SpecDb == Init /\ [][NextDb]_vars

\* an admin sends one message, outside any thread, with any of the bodies:
\* handle_message parses it and returns
NextParse ==
    /\ inv[1].pc = "idle"
    /\ \E sender \in admin_users : \E body \in ParseBodies :
          on_room_message(1, sender, body, NoRelation)

SpecParse == Init /\ [][NextParse]_vars


(***************************************************************************)
(* Properties.                                                             *)
(***************************************************************************)
\* the remote calls invocation i has made, as positions of `effects`
EffectsBy(i) == {k \in 1 .. Len(effects) : effects[k].inv = i}

Calls(i, op) == {k \in EffectsBy(i) : effects[k].op = op}

\* the records whose root message is event e
TrackedBy(e) == SelectMatrixEventId(issue_events, e)

\* invocation i handles a Resolve command of an admin, sent in a thread
IsResolveInThread(i) ==
    /\ inv[i].kind = "message"
    /\ inv[i].sender \in admin_users
    /\ is_some(parse_command(inv[i].body))
    /\ inv[i].relates_to.rel = "thread"

\* C1: a Resolve command with a comment, sent by an admin in the thread of
\* tracked issue N, makes its remote calls in one order only: add_comment(N,
\* text) first, resolve_issue(N) only after add_comment succeeded, and the
\* confirmation reply only after resolve_issue succeeded; each at most once.
C1_CommentResolveReplyOrder ==
    \A i \in Invs :
        ( /\ IsResolveInThread(i)
          /\ is_some(unwrap(parse_command(inv[i].body)).comment)
          /\ TrackedBy(inv[i].relates_to.event_id) # <<>> )
        =>
        LET N == TrackedBy(inv[i].relates_to.event_id)[1].issue_id
            text == unwrap(unwrap(parse_command(inv[i].body)).comment)
        IN  /\ \A op \in {"add_comment", "resolve_issue", "send_thread_reply"} :
                  Cardinality(Calls(i, op)) <= 1
            /\ \A k \in EffectsBy(i) :
                  /\ effects[k].op \in
                        {"add_comment", "resolve_issue", "send_thread_reply"}
                  /\ effects[k].op = "add_comment" =>
                        /\ effects[k].issue_id = N
                        /\ effects[k].text = text
                        /\ \A j \in EffectsBy(i) : j >= k
                  /\ effects[k].op = "resolve_issue" =>
                        /\ effects[k].issue_id = N
                        /\ \E j \in Calls(i, "add_comment") : j < k /\ effects[j].ok
                  /\ effects[k].op = "send_thread_reply" =>
                        \E j \in Calls(i, "resolve_issue") : j < k /\ effects[j].ok

\* C1 witness: such a command has made all three calls
C1_Witness ==
    \E i \in Invs :
        /\ IsResolveInThread(i)
        /\ is_some(unwrap(parse_command(inv[i].body)).comment)
        /\ TrackedBy(inv[i].relates_to.event_id) # <<>>
        /\ \E k \in Calls(i, "send_thread_reply") : effects[k].ok
        /\ inv[i].result = "ok"

\* C2: a message whose sender is not in the admin allow-list makes no remote
\* call at all (no Seerr call, no reply) and returns Ok, whatever its body
\* and relation.
C2_AuthorizationGate ==
    \A i \in Invs :
        (inv[i].kind = "message" /\ inv[i].sender \notin admin_users)
        => /\ EffectsBy(i) = {}
           /\ inv[i].pc = "done"
           /\ inv[i].result = "ok"

\* C2 witness: a non-admin sent a Resolve command in the thread of a tracked issue
C2_Witness ==
    \E i \in Invs :
        /\ inv[i].kind = "message"
        /\ inv[i].sender \notin admin_users
        /\ is_some(parse_command(inv[i].body))
        /\ inv[i].relates_to.rel = "thread"
        /\ TrackedBy(inv[i].relates_to.event_id) # <<>>
        /\ inv[i].pc = "done"

\* C3: a Resolve command of an admin that carries no thread relation (no
\* relation, or another kind of relation) makes no remote call and returns Ok.
C3_ThreadingGate ==
    \A i \in Invs :
        ( /\ inv[i].kind = "message"
          /\ inv[i].sender \in admin_users
          /\ is_some(parse_command(inv[i].body))
          /\ inv[i].relates_to.rel # "thread" )
        => /\ EffectsBy(i) = {}
           /\ inv[i].pc = "done"
           /\ inv[i].result = "ok"

\* C3 witness: an admin sent Resolve as a plain reply to the root message of a
\* tracked issue, and another as a message with no relation
C3_Witness ==
    /\ \E i \in Invs :
          /\ inv[i].kind = "message"
          /\ inv[i].sender \in admin_users
          /\ is_some(parse_command(inv[i].body))
          /\ inv[i].relates_to.rel = "reply"
          /\ TrackedBy(inv[i].relates_to.event_id) # <<>>
          /\ inv[i].pc = "done"
    /\ \E i \in Invs :
          /\ inv[i].kind = "message"
          /\ inv[i].sender \in admin_users
          /\ is_some(parse_command(inv[i].body))
          /\ inv[i].relates_to.rel = "none"
          /\ inv[i].pc = "done"

\* C9: when add_comment fails, it is the last remote call of its invocation:
\* no resolve_issue, no confirmation reply, and the invocation returns Err.
C9_CommentFailureAborts ==
    \A k \in 1 .. Len(effects) :
        (effects[k].op = "add_comment" /\ ~effects[k].ok)
        => LET i == effects[k].inv
           IN  /\ Calls(i, "resolve_issue") = {}
               /\ Calls(i, "send_thread_reply") = {}
               /\ \A j \in EffectsBy(i) : j <= k
               /\ inv[i].pc = "done"
               /\ inv[i].result = "err"

\* C9 witness: an add_comment call has failed
C9_Witness ==
    \E k \in 1 .. Len(effects) : effects[k].op = "add_comment" /\ ~effects[k].ok

\* C10: when resolve_issue fails, it is the last remote call of its invocation
\* and the invocation returns Err; and a reply "Issue N resolved" is sent only
\* by an invocation whose resolve_issue(N) has succeeded before.
C10_ResolveFailureStops ==
    /\ \A k \in 1 .. Len(effects) :
          (effects[k].op = "resolve_issue" /\ ~effects[k].ok)
          => LET i == effects[k].inv
             IN  /\ Calls(i, "send_thread_reply") = {}
                 /\ \A j \in EffectsBy(i) : j <= k
                 /\ inv[i].pc = "done"
                 /\ inv[i].result = "err"
    /\ \A k \in 1 .. Len(effects), N \in IssueIds :
          (effects[k].op = "send_thread_reply" /\ effects[k].text = plain_resolved(N))
          => \E j \in Calls(effects[k].inv, "resolve_issue") :
                j < k /\ effects[j].ok /\ effects[j].issue_id = N

\* C10 witness: one resolve_issue has failed, and one confirmation was sent
C10_Witness ==
    /\ \E k \in 1 .. Len(effects) : effects[k].op = "resolve_issue" /\ ~effects[k].ok
    /\ \E k \in 1 .. Len(effects), N \in IssueIds :
          /\ effects[k].op = "send_thread_reply"
          /\ effects[k].ok
          /\ effects[k].text = plain_resolved(N)


\* the IssueCreated deliveries for issue n
CreatedFor(n) ==
    {i \in Invs : inv[i].kind = "IssueCreated" /\ inv[i].issue_id = n}

ReturnedOk(i) == inv[i].pc = "done" /\ inv[i].result = "ok"

\* the root messages the invocations of set I have sent
RootMessages(I) ==
    {k \in 1 .. Len(effects) :
        effects[k].inv \in I /\ effects[k].op = "send_html_message" /\ effects[k].ok}

\* C4 (under SpecSeq): when IssueCreated is delivered twice in sequence for
\* an issue and both deliveries are handled to the end, there is exactly one
\* record for the issue and exactly one root message, sent by the first.
C4_IdempotentCreation ==
    \A n \in IssueIds : \A i, j \in CreatedFor(n) :
        (i < j /\ CreatedFor(n) = {i, j} /\ ReturnedOk(i) /\ ReturnedOk(j))
        => /\ Len(SelectIssueId(issue_events, n)) = 1
           /\ Cardinality(RootMessages({i, j})) = 1
           /\ RootMessages({j}) = {}

\* C4 witness: two IssueCreated deliveries for one issue have been handled
C4_Witness ==
    \E n \in IssueIds : \E i, j \in CreatedFor(n) :
        i < j /\ CreatedFor(n) = {i, j} /\ ReturnedOk(i) /\ ReturnedOk(j)

\* C5 (as claimed): of two IssueCreated deliveries for one issue handled
\* concurrently and both to the end, one record is stored and at most one
\* root message is sent.
C5_RaceSendsOneRootMessage ==
    \A n \in IssueIds : \A i, j \in CreatedFor(n) :
        (i < j /\ CreatedFor(n) = {i, j} /\ ReturnedOk(i) /\ ReturnedOk(j))
        => /\ Len(SelectIssueId(issue_events, n)) = 1
           /\ Cardinality(RootMessages({i, j})) = 1

\* C6: while an issue has no record, no step of an IssueComment or
\* IssueResolved invocation for it makes a remote call or changes the table:
\* the invocation only returns.
C6_UnknownIssueDropped ==
    [][\A i \in Invs :
          ( /\ inv[i].kind \in {"IssueComment", "IssueResolved"}
            /\ SelectIssueId(issue_events, inv[i].issue_id) = <<>>
            /\ inv'[i] # inv[i] )
          => /\ effects' = effects
             /\ issue_events' = issue_events
             /\ inv'[i].pc = "done"]_vars

\* C6 witness: an IssueComment or IssueResolved for an issue without a record
\* was dropped while another issue had a record
C6_Witness ==
    \E i \in Invs :
        /\ inv[i].kind \in {"IssueComment", "IssueResolved"}
        /\ SelectIssueId(issue_events, inv[i].issue_id) = <<>>
        /\ ReturnedOk(i)
        /\ issue_events # <<>>

\* the deliveries that may touch the marker of issue n
MarkerOps(n) ==
    {i \in Invs : inv[i].kind \in {"IssueCreated", "IssueResolved"}
                     /\ inv[i].issue_id = n}

\* the delivery for issue n that arrived last before i
IsPrev(j, i, n) ==
    j \in MarkerOps(n) /\ j < i /\ \A l \in MarkerOps(n) : l < i => l <= j

IsLast(i, n) == \A l \in MarkerOps(n) : l <= i

MarkerOf(n) == SelectIssueId(issue_events, n)[1].reaction_event_id

\* C7 (under SpecSeq, deliveries handled to the end): after IssueCreated the
\* record has a marker; an IssueResolved that follows it makes exactly one
\* redact_event call and leaves the marker absent; an IssueResolved that
\* follows an IssueResolved makes no redact_event call.
C7_MarkerLifecycle ==
    \A n \in IssueIds : \A i \in MarkerOps(n) :
        ReturnedOk(i) =>
        /\ (inv[i].kind = "IssueCreated" /\ IsLast(i, n)) =>
              /\ SelectIssueId(issue_events, n) # <<>>
              /\ is_some(MarkerOf(n))
        /\ \A j \in MarkerOps(n) :
              (inv[i].kind = "IssueResolved" /\ IsPrev(j, i, n) /\ ReturnedOk(j)) =>
                 IF inv[j].kind = "IssueCreated"
                 THEN /\ Cardinality(Calls(i, "redact_event")) = 1
                      /\ \A k \in Calls(i, "redact_event") : effects[k].ok
                      /\ IsLast(i, n) => ~is_some(MarkerOf(n))
                 ELSE Calls(i, "redact_event") = {}

\* C7 witness: IssueCreated, IssueResolved, IssueResolved for one issue
C7_Witness ==
    \E n \in IssueIds : \E i, j, k \in MarkerOps(n) :
        /\ i < j /\ j < k
        /\ inv[i].kind = "IssueCreated"
        /\ inv[j].kind = "IssueResolved"
        /\ inv[k].kind = "IssueResolved"
        /\ ReturnedOk(i) /\ ReturnedOk(j) /\ ReturnedOk(k)

\* an IssueCreated delivery for issue n has stored the marker it attached
MarkerStored(n) ==
    \E c \in CreatedFor(n) :
        /\ ReturnedOk(c)
        /\ inv[c].event_id > 0
        /\ effects[inv[c].event_id].op = "send_reaction"

\* invocation i is a Resolve command that found the record of its thread root
\* and returned Ok
ResolvedByCommand(i) ==
    /\ IsResolveInThread(i)
    /\ ReturnedOk(i)
    /\ inv[i].issue_id \in IssueIds

\* C8 (as claimed): once such a command has been handled and nothing is in
\* flight, the confirmation is in the thread and the marker of the issue is
\* absent.
C8_CommandRemovesMarker ==
    \A i \in Invs :
        (ResolvedByCommand(i) /\ MarkerStored(inv[i].issue_id) /\ InFlight = {})
        => /\ \E k \in Calls(i, "send_thread_reply") : effects[k].ok
           /\ ~is_some(MarkerOf(inv[i].issue_id))

\* C8 (amended): the command results in the reply "Issue N resolved" threaded
\* under the root message M of issue N; the marker of N is absent only if an
\* IssueResolved notification for N has been handled.
C8_CommandRepliesMarkerKept ==
    \A i \in Invs :
        (ResolvedByCommand(i) /\ MarkerStored(inv[i].issue_id))
        => LET N == inv[i].issue_id
           IN  /\ \E k \in Calls(i, "send_thread_reply") :
                     /\ effects[k].ok
                     /\ effects[k].text = plain_resolved(N)
                     /\ effects[k].target = inv[i].relates_to.event_id
                     /\ effects[k].target = SelectIssueId(issue_events, N)[1].matrix_event_id
               /\ ~is_some(MarkerOf(N)) =>
                     \E j \in Invs : /\ inv[j].kind = "IssueResolved"
                                     /\ inv[j].issue_id = N
                                     /\ ReturnedOk(j)

\* C8 witness: the command has been handled, nothing is in flight, and the
\* marker is still recorded
C8_Witness ==
    \E i \in Invs :
        /\ ResolvedByCommand(i)
        /\ MarkerStored(inv[i].issue_id)
        /\ InFlight = {}
        /\ is_some(MarkerOf(inv[i].issue_id))
        /\ \E k \in Calls(i, "send_thread_reply") : effects[k].ok

\* C11: a Resolve command of an admin, sent in a thread whose root message is
\* the root message of no record, makes no remote call at all (no add_comment,
\* no resolve_issue, no reply), stops at the lookup, and returns Ok unless the
\* query itself failed.
C11_UntrackedThreadIgnored ==
    \A i \in Invs :
        (IsResolveInThread(i) /\ TrackedBy(inv[i].relates_to.event_id) = <<>>)
        => /\ EffectsBy(i) = {}
           /\ inv[i].pc \in {"cmd_get_issue_event", "done"}
           /\ inv[i].issue_event = None
           /\ inv[i].result \in {"none", "ok", "db_err"}

\* C11 witness: while a record exists, a Resolve command sent in the thread of
\* a message of the bot that is no root message has returned Ok
C11_Witness ==
    \E i \in Invs :
        /\ IsResolveInThread(i)
        /\ inv[i].relates_to.event_id > 0
        /\ TrackedBy(inv[i].relates_to.event_id) = <<>>
        /\ issue_events # <<>>
        /\ ReturnedOk(i)

\* the messages whose body handle_message has handed to parse_command
Parsed == {i \in Invs : inv[i].kind = "message" /\ inv[i].sender \in admin_users}

\* the text after the first k characters of s
drop(s, k) == SubSeq(s, k + 1, Len(s))

\* the whitespace-delimited word s begins with
RECURSIVE first_word(_)
first_word(s) ==
    IF s = <<>> \/ Head(s) \in WhiteSpace THEN <<>>
    ELSE <<Head(s)>> \o first_word(Tail(s))

\* the body, trimmed, begins with `!issues`
HasPrefix(i) == starts_with(trim(inv[i].body), KwIssues)

\* what follows `!issues` in the trimmed body, without leading whitespace
AfterPrefix(i) == trim_start(drop(trim(inv[i].body), Len(KwIssues)))

\* the text after `!issues resolve`, without surrounding whitespace
AfterResolve(i) == trim(drop(AfterPrefix(i), Len(KwResolve)))

\* C12: a body that, trimmed, does not begin with `!issues` is no command, and
\* a body whose word after `!issues` is not exactly `resolve` is no command.
C12_CommandRecognition ==
    \A i \in Parsed :
        /\ ~HasPrefix(i) => inv[i].command = None
        /\ (HasPrefix(i) /\ first_word(AfterPrefix(i)) # KwResolve)
           => inv[i].command = None

\* C13: when the text after `!issues resolve` begins with a double quote, the
\* comment is that text without the opening quote and without the closing
\* quote when the text ends with one, and all of the text after the opening
\* quote otherwise (no comment when nothing is left).
C13_QuotedComment ==
    \A i \in Parsed :
        (/\ HasPrefix(i)
         /\ starts_with(AfterPrefix(i), KwResolve)
         /\ starts_with(AfterResolve(i), Quote))
        => LET inner == Tail(AfterResolve(i))
               text == IF inner # <<>> /\ inner[Len(inner)] = "\""
                       THEN SubSeq(inner, 1, Len(inner) - 1)
                       ELSE inner
           IN  inv[i].command =
                   Some(Resolve(IF text = <<>> THEN None ELSE Some(text)))

\* C13 witness: `"a"a` was parsed: it does not end with a quote, so only the
\* opening quote is removed and the interior quote is kept
C13_Witness ==
    \E i \in Parsed :
        /\ AfterResolve(i) = <<"\"", "a", "\"", "a">>
        /\ inv[i].command = Some(Resolve(Some(<<"a", "\"", "a">>)))

\* C14: when `!issues resolve` is followed by whitespace and a text that does
\* not begin with a double quote, the command is Resolve and its comment is
\* the text without leading and trailing whitespace.
C14_UnquotedComment ==
    \A i \in Parsed :
        (/\ HasPrefix(i)
         /\ starts_with(AfterPrefix(i), KwResolve)
         /\ first_word(AfterPrefix(i)) = KwResolve
         /\ AfterResolve(i) # <<>>
         /\ ~starts_with(AfterResolve(i), Quote))
        => inv[i].command = Some(Resolve(Some(AfterResolve(i))))

\* C14 witness: ` a a ` after the subcommand was parsed to the comment `a a`
C14_Witness ==
    \E i \in Parsed :
        /\ inv[i].body = KwIssues \o <<" ">> \o KwResolve
                             \o <<" ", "a", " ", "a", " ">>
        /\ inv[i].command = Some(Resolve(Some(<<"a", " ", "a">>)))

\* C15: parsing a body and parsing the trimmed body give the same result, and
\* `  !issues resolve  ` parses to Resolve without a comment.
C15_WhitespaceInsensitive ==
    \A i \in Parsed :
        /\ inv[i].command = parse_command(trim(inv[i].body))
        /\ inv[i].body = <<" ", " ">> \o KwIssues \o <<" ">> \o KwResolve
                             \o <<" ", " ">>
           => inv[i].command = Some(Resolve(None))

\* C15 witness: `  !issues resolve  ` was parsed
C15_Witness ==
    \E i \in Parsed :
        /\ inv[i].body = <<" ", " ">> \o KwIssues \o <<" ">> \o KwResolve
                             \o <<" ", " ">>
        /\ inv[i].pc = "done"

\* C16: `!issues resolve` and `!issues resolve ""` parse to Resolve without a
\* comment, and the comment of every Resolve is absent or a non-empty text.
C16_NoEmptyComment ==
    \A i \in Parsed :
        /\ inv[i].body \in {KwIssues \o <<" ">> \o KwResolve,
                             KwIssues \o <<" ">> \o KwResolve
                                 \o <<" ", "\"", "\"">>}
           => inv[i].command = Some(Resolve(None))
        /\ is_some(inv[i].command)
           => \/ unwrap(inv[i].command).comment = None
              \/ /\ is_some(unwrap(inv[i].command).comment)
                 /\ unwrap(unwrap(inv[i].command).comment) # <<>>

\* C16 witness: `!issues resolve ""` was parsed
C16_Witness ==
    \E i \in Parsed :
        /\ inv[i].body = KwIssues \o <<" ">> \o KwResolve \o <<" ", "\"", "\"">>
        /\ inv[i].pc = "done"

\* the direct calls of db.rs function f
DbCalls(f) == {i \in Invs : inv[i].kind = f /\ inv[i].pc = "done"}

\* C17: insert_issue_event for an issue id that already has a row leaves the
\* table as it is (the row keeps its fields, no row is added) and does not
\* return Ok.
C17_DuplicateCreateIsNoOp ==
    [][\A i \in Invs :
          (/\ inv[i].pc = "idle"
           /\ inv'[i].kind = "insert_issue_event"
           /\ SelectIssueId(issue_events, inv'[i].issue_id) # <<>>)
          => /\ issue_events' = issue_events
             /\ inv'[i].result # "ok"]_vars

\* C17 witness: an insert for an issue id whose row holds another root
\* message was rejected with a unique violation
C17_Witness ==
    \E i \in DbCalls("insert_issue_event") :
        /\ inv[i].result = "unique_violation"
        /\ \E k \in 1 .. Len(issue_events) :
              /\ issue_events[k].issue_id = inv[i].issue_id
              /\ issue_events[k].matrix_event_id # inv[i].event_id

\* C18: the table holds at most one row per issue id.
C18_OneRecordPerIssue ==
    \A n \in IssueIds : Len(SelectIssueId(issue_events, n)) <= 1

\* C18 witness: two IssueCreated deliveries for one issue have both sent a
\* root message and both are past their insert
C18_Witness ==
    \E n \in IssueIds : \E i, j \in CreatedFor(n) :
        /\ i # j
        /\ RootMessages({i}) # {} /\ RootMessages({j}) # {}
        /\ inv[i].pc \notin {"wh_send_html_message", "wh_insert_issue_event"}
        /\ inv[j].pc \notin {"wh_send_html_message", "wh_insert_issue_event"}
        /\ inv[i].result # "db_err" /\ inv[j].result # "db_err"
        /\ Len(SelectIssueId(issue_events, n)) = 1

\* C19: a row, once in the table, stays at its place with the same issue_id,
\* matrix_event_id and matrix_room_id in every later state.
C19_ImmutableAnchor ==
    [][\A k \in 1 .. Len(issue_events) :
          /\ k <= Len(issue_events')
          /\ issue_events'[k].issue_id = issue_events[k].issue_id
          /\ issue_events'[k].matrix_event_id = issue_events[k].matrix_event_id
          /\ issue_events'[k].matrix_room_id = issue_events[k].matrix_room_id]_vars

\* C19 witness: a record whose marker was set, redacted and cleared still
\* names the root message its IssueCreated delivery sent
C19_Witness ==
    \E k \in 1 .. Len(issue_events) :
        /\ issue_events[k].reaction_event_id = None
        /\ issue_events[k].matrix_event_id
               \in RootMessages(CreatedFor(issue_events[k].issue_id))
        /\ \E r \in 1 .. Len(effects) :
              /\ effects[r].op = "redact_event" /\ effects[r].ok
              /\ inv[effects[r].inv].issue_id = issue_events[k].issue_id
              /\ ReturnedOk(effects[r].inv)

\* C20 as stated: set_reaction_event_id or clear_reaction_event_id for an
\* issue id without a row reports something other than Ok.
C20_ReportsNotFound ==
    \A i \in DbCalls("set_reaction_event_id") \cup DbCalls("clear_reaction_event_id") :
        SelectIssueId(issue_events, inv[i].issue_id) = <<>>
        => inv[i].result # "ok"

\* C20 amended: set_reaction_event_id or clear_reaction_event_id for an issue
\* id without a row leaves the table as it is and returns Ok(()) like a
\* successful update, unless the query itself fails.
C20_MissingRowIsSilent ==
    [][\A i \in Invs :
          (/\ inv[i].pc = "idle"
           /\ inv'[i].kind \in {"set_reaction_event_id", "clear_reaction_event_id"}
           /\ SelectIssueId(issue_events, inv'[i].issue_id) = <<>>)
          => /\ issue_events' = issue_events
             /\ inv'[i].result \in {"ok", "db_err"}]_vars

\* C20 witness: while a record of another issue exists, set_reaction_event_id
\* for an issue id without a row has returned Ok
C20_Witness ==
    \E i \in DbCalls("set_reaction_event_id") :
        /\ SelectIssueId(issue_events, inv[i].issue_id) = <<>>
        /\ issue_events # <<>>
        /\ inv[i].result = "ok"

\* the issue ids that have a row in table
Tracked(table) == {table[k].issue_id : k \in 1 .. Len(table)}

\* C21: the set of issue ids that have a row only grows: whatever function of
\* db.rs is called, an issue that has a row before the call has one after it.
C21_RecordsNeverDeleted ==
    [][Tracked(issue_events) \subseteq Tracked(issue_events')]_vars

\* C21 witness: a row was inserted, then its marker set, then its marker
\* cleared, and the row is still there
C21_Witness ==
    \E i \in DbCalls("insert_issue_event") :
    \E j \in DbCalls("set_reaction_event_id") :
    \E k \in DbCalls("clear_reaction_event_id") :
        /\ i < j /\ j < k
        /\ inv[i].result = "ok" /\ inv[j].result = "ok" /\ inv[k].result = "ok"
        /\ inv[j].issue_id = inv[i].issue_id /\ inv[k].issue_id = inv[i].issue_id
        /\ inv[i].issue_id \in Tracked(issue_events)

\* C22: no step of the handling of a chat message changes the table: not its
\* arrival (admin check, parse, thread check), not the lookup, not a remote
\* call, whether the step succeeds or fails.
C22_InterpreterReadsOnly ==
    [][\A i \in Invs :
          (inv'[i] # inv[i] /\ inv'[i].kind = "message")
          => issue_events' = issue_events]_vars

\* C22 witness: a Resolve command for a tracked issue whose marker is stored
\* has failed at a remote call, and the record is the one the command read
C22_Witness ==
    \E i \in Invs :
        /\ IsResolveInThread(i)
        /\ inv[i].pc = "done" /\ inv[i].result = "err"
        /\ is_some(inv[i].issue_event)
        /\ is_some(unwrap(inv[i].issue_event).reaction_event_id)
        /\ SelectIssueId(issue_events, inv[i].issue_id) = inv[i].issue_event

\* the rows of table whose root message is event e
RowsRootedAt(table, e) ==
    {k \in 1 .. Len(table) : table[k].matrix_event_id = e}

\* C23: get_issue_event_by_matrix_event_id(e) returns None when e is the root
\* message of no row (also when e is the marker of a row), and otherwise
\* returns a row whose root message is e, unchanged.
C23_ExactRootMatch ==
    [][\A i \in Invs :
          (/\ inv[i].pc = "idle"
           /\ inv'[i].kind = "get_issue_event_by_matrix_event_id"
           /\ inv'[i].result = "ok")
          => IF RowsRootedAt(issue_events, inv'[i].event_id) = {}
             THEN inv'[i].issue_event = None
             ELSE \E k \in RowsRootedAt(issue_events, inv'[i].event_id) :
                     inv'[i].issue_event = Some(issue_events[k])]_vars

\* C23 witness: a row was inserted, its marker set to event e, and the lookup
\* of e, which is the root message of no row, has returned None
C23_Witness ==
    \E i \in DbCalls("insert_issue_event") :
    \E j \in DbCalls("set_reaction_event_id") :
    \E k \in DbCalls("get_issue_event_by_matrix_event_id") :
        /\ i < j /\ j < k
        /\ inv[i].result = "ok" /\ inv[j].result = "ok" /\ inv[k].result = "ok"
        /\ inv[j].issue_id = inv[i].issue_id
        /\ inv[k].event_id = inv[j].event_id
        /\ inv[k].event_id # inv[i].event_id
        /\ inv[k].issue_event = None

\* the remote call a step has made, if it has made one
NewEffects == IF Len(effects') > Len(effects) THEN {effects'[Len(effects')]} ELSE {}

\* C24 (as claimed): when a notification handler performs a chat operation,
\* the store mutation that records it has been made before: the record exists
\* when the root message is sent, the marker is stored when the reaction is
\* added, and the marker is cleared when the reaction is redacted.
C24_StoreBeforeChat ==
    [][\A e \in NewEffects :
          (e.ok /\ inv[e.inv].kind \in {"IssueCreated", "IssueResolved"})
          => LET rows == SelectIssueId(issue_events, inv[e.inv].issue_id)
             IN  /\ e.op = "send_html_message" => rows # <<>>
                 /\ e.op = "send_reaction"
                    => rows # <<>> /\ is_some(rows[1].reaction_event_id)
                 /\ e.op = "redact_event"
                    => rows # <<>> /\ ~is_some(rows[1].reaction_event_id)]_vars

\* the notifications about issue n, numbered in arrival order
NotificationsFor(n) ==
    {i \in Invs : /\ inv[i].kind \in {"IssueCreated", "IssueComment", "IssueResolved"}
                  /\ inv[i].issue_id = n}

\* C25 (as claimed): of two notifications about one issue, every chat
\* operation of the one that arrived first is made before every chat
\* operation of the one that arrived second.
C25_PerIssueArrivalOrder ==
    \A n \in IssueIds : \A i, j \in NotificationsFor(n) :
        i < j => \A a \in EffectsBy(i), b \in EffectsBy(j) : a < b

\* the reactions added to the root message of row r, and the redactions of
\* those reactions, as positions of `effects`
ReactionsOn(r) ==
    {k \in 1 .. Len(effects) :
        /\ effects[k].ok /\ effects[k].op = "send_reaction"
        /\ effects[k].target = r.matrix_event_id}

RedactionsOn(r) ==
    {k \in 1 .. Len(effects) :
        /\ effects[k].ok /\ effects[k].op = "redact_event"
        /\ effects[k].target \in ReactionsOn(r)}

\* the marker on the root message of row r: the last reaction added to it,
\* unless a redaction of that reaction has followed
OpenMarker(r) ==
    {a \in ReactionsOn(r) :
        /\ \A k \in ReactionsOn(r) \cup RedactionsOn(r) : k <= a
        /\ \A k \in RedactionsOn(r) : effects[k].target # a}

\* C26 (as claimed): when no invocation is in flight, the reaction_event_id
\* of every row is the marker that is on its root message, and is absent when
\* there is none.
C26_MarkerAgreement ==
    InFlight = {} =>
        \A k \in 1 .. Len(issue_events) :
            LET r == issue_events[k]
            IN  IF OpenMarker(r) = {}
                THEN r.reaction_event_id = None
                ELSE \E a \in OpenMarker(r) : r.reaction_event_id = Some(a)

\* C27 (under SpecSeq): a reaction is added only while the record of the issue
\* has no marker, a redaction is made only of the marker the record has, and
\* an IssueResolved whose record has no marker ends after its reply without a
\* redaction, with Ok unless the reply itself failed.
C27_AtMostOneOpenMarker ==
    [][/\ \A e \in NewEffects :
             LET rows == SelectIssueId(issue_events, inv[e.inv].issue_id)
             IN  /\ e.op = "send_reaction"
                    => rows # <<>> /\ rows[1].reaction_event_id = None
                 /\ e.op = "redact_event"
                    => rows # <<>> /\ rows[1].reaction_event_id = Some(e.target)
       /\ \A i \in Invs :
             (/\ inv[i].kind = "IssueResolved"
              /\ inv[i].pc = "wh_send_thread_reply"
              /\ inv'[i] # inv[i]
              /\ SelectIssueId(issue_events, inv[i].issue_id)[1].reaction_event_id
                    = None)
             => /\ inv'[i].pc = "done"
                /\ \/ inv'[i].result = "ok"
                   \/ \E e \in NewEffects : ~e.ok]_vars

\* C27 witness: the first IssueCreated has attached and stored the marker and
\* a second IssueCreated for the issue has returned Ok without a reaction
C27_Witness ==
    \E n \in IssueIds : \E i, j \in CreatedFor(n) :
        /\ i < j /\ ReturnedOk(i) /\ ReturnedOk(j)
        /\ \E k \in Calls(i, "send_reaction") :
              effects[k].ok /\ MarkerOf(n) = Some(k)
        /\ Calls(j, "send_reaction") = {}

\* C28: an IssueComment for an issue that has a record never changes the
\* table; the only remote call it makes is one send_thread_reply whose thread
\* root is the root message of the record of its issue; and when it returns
\* Ok it has made exactly that one call.
C28_CommentRepliesInThread ==
    [][\A i \in Invs :
          (inv'[i] # inv[i] /\ inv'[i].kind = "IssueComment"
             /\ SelectIssueId(issue_events, inv'[i].issue_id) # <<>>)
          => LET r == SelectIssueId(issue_events, inv'[i].issue_id)[1]
                 calls == {k \in 1 .. Len(effects') : effects'[k].inv = i}
             IN  /\ issue_events' = issue_events
                 /\ \A e \in NewEffects :
                       /\ e.op = "send_thread_reply"
                       /\ e.target = r.matrix_event_id
                       /\ EffectsBy(i) = {}
                 /\ (inv'[i].pc = "done" /\ inv'[i].result = "ok")
                    => /\ Cardinality(calls) = 1
                       /\ \A k \in calls : effects'[k].ok]_vars

\* C28 witness: two issues have a record and an IssueComment for the first
\* has returned Ok after its reply under the root message of the first
C28_Witness ==
    \E i \in Invs :
        /\ inv[i].kind = "IssueComment" /\ ReturnedOk(i)
        /\ Len(issue_events) = 2
        /\ issue_events[1].issue_id = inv[i].issue_id
        /\ \E k \in Calls(i, "send_thread_reply") :
              effects[k].ok /\ effects[k].target = issue_events[1].matrix_event_id

\* invocation i has failed: a remote call or a query of it returned an error
Failed(i) == inv[i].pc = "done" /\ inv[i].result \in {"err", "db_err"}

\* C29: the step in which an invocation fails ends that invocation only: every
\* other invocation is left exactly as it was, in flight or not, and the table
\* is not changed by the failing step.
C29_FailureIsolation ==
    [][\A i \in Invs :
          (~Failed(i) /\ Failed(i)')
          => /\ \A j \in Invs \ {i} : inv'[j] = inv[j]
             /\ issue_events' = issue_events]_vars

\* C29 witness: a command has failed at a remote call, and a notification
\* that arrived after it was handled to the end: its record and marker are
\* stored
C29_Witness ==
    \E i, j \in Invs :
        /\ i < j
        /\ inv[i].kind = "message" /\ Failed(i)
        /\ inv[j].kind = "IssueCreated" /\ ReturnedOk(j)
        /\ \E k \in Calls(j, "send_reaction") :
              effects[k].ok /\ MarkerOf(inv[j].issue_id) = Some(k)

\* C30 (as claimed): every invocation that has started eventually ends, with
\* Ok or with an error.
C30_EveryInvocationTerminates ==
    \A i \in Invs : (inv[i].pc # "idle") ~> (inv[i].pc = "done")

\* C31: the handling of one chat message calls add_comment at most once,
\* resolve_issue at most once and send_thread_reply at most once; it calls
\* add_comment only for the body that carries a comment, with that comment;
\* and after a call of it has failed it makes no further call.
C31_NoRetry ==
    \A i \in Invs :
        inv[i].kind = "message"
        => /\ Cardinality(Calls(i, "add_comment")) <= 1
           /\ Cardinality(Calls(i, "resolve_issue")) <= 1
           /\ Cardinality(Calls(i, "send_thread_reply")) <= 1
           /\ \A k \in Calls(i, "add_comment") :
                 /\ inv[i].body = BodyResolveComment
                 /\ effects[k].text = <<"o", "k">>
           /\ \A k \in EffectsBy(i) :
                 ~effects[k].ok => \A l \in EffectsBy(i) : l <= k

\* C31 witness: a command with a comment has posted the comment once, its one
\* resolve_issue has failed, and the command has ended
C31_Witness ==
    \E i \in Invs :
        /\ inv[i].kind = "message" /\ inv[i].pc = "done"
        /\ \E k \in Calls(i, "add_comment") : effects[k].ok
        /\ \E k \in Calls(i, "resolve_issue") : ~effects[k].ok
        /\ Cardinality(EffectsBy(i)) = 2

\* the calls of set_reaction_event_id and clear_reaction_event_id
MarkerWrites == {"set_reaction_event_id", "clear_reaction_event_id"}

\* C32: a set_reaction_event_id or clear_reaction_event_id that returns Ok
\* keeps every row at its place, changes no row of another issue, and in the
\* rows of its issue changes reaction_event_id only, to the id given (to NULL
\* for a clear); and when the call before it was the same call with the same
\* arguments and returned Ok, it leaves the table as it is.
C32_IdempotentSingleFieldWrite ==
    [][\A i \in Invs :
          (/\ inv[i].pc = "idle"
           /\ inv'[i].kind \in MarkerWrites
           /\ inv'[i].result = "ok")
          => /\ Len(issue_events') = Len(issue_events)
             /\ \A k \in 1 .. Len(issue_events) :
                   IF issue_events[k].issue_id # inv'[i].issue_id
                   THEN issue_events'[k] = issue_events[k]
                   ELSE issue_events'[k] =
                          [issue_events[k] EXCEPT !.reaction_event_id =
                              IF inv'[i].kind = "set_reaction_event_id"
                              THEN Some(inv'[i].event_id)
                              ELSE None]
             /\ (i > 1 /\ inv[i - 1] = inv'[i])
                => issue_events' = issue_events]_vars

\* C32 witness: a row was inserted and the same set_reaction_event_id was
\* applied to it twice in a row
C32_Witness ==
    \E i \in DbCalls("insert_issue_event") :
    \E j, k \in DbCalls("set_reaction_event_id") :
        /\ i < j /\ k = j + 1
        /\ inv[i].result = "ok" /\ inv[j].result = "ok"
        /\ inv[j].issue_id = inv[i].issue_id
        /\ inv[k] = inv[j]
        /\ SelectIssueId(issue_events, inv[i].issue_id)[1].reaction_event_id
              = Some(inv[j].event_id)

\* C33: every call a message invocation makes is about the one record whose
\* root message is the thread root of the message: add_comment and
\* resolve_issue carry the issue id of that record, the confirmation names
\* that issue id and is threaded under that root message.
C33_TargetConsistency ==
    \A i \in Invs :
        (inv[i].kind = "message" /\ EffectsBy(i) # {})
        => LET rows == TrackedBy(inv[i].relates_to.event_id)
           IN  /\ inv[i].relates_to.rel = "thread"
               /\ Len(rows) = 1
               /\ \A k \in EffectsBy(i) :
                     IF effects[k].op = "send_thread_reply"
                     THEN /\ effects[k].target = inv[i].relates_to.event_id
                          /\ effects[k].text = plain_resolved(rows[1].issue_id)
                          /\ effects[k].html = html_resolved(rows[1].issue_id)
                     ELSE /\ effects[k].op \in {"add_comment", "resolve_issue"}
                          /\ effects[k].issue_id = rows[1].issue_id

\* C33 witness: two issues have a record, and a command with a comment sent in
\* the thread of the second has made its three calls
C33_Witness ==
    \E i \in Invs :
        /\ inv[i].kind = "message" /\ ReturnedOk(i)
        /\ Len(issue_events) = 2
        /\ issue_events[2].matrix_event_id = inv[i].relates_to.event_id
        /\ Cardinality(EffectsBy(i)) = 3
        /\ \A k \in Calls(i, "resolve_issue") :
              effects[k].issue_id = issue_events[2].issue_id

\* the messages whose body is a confirmation text
Echoes ==
    {i \in Invs : /\ inv[i].kind = "message"
                  /\ \E n \in IssueIds : inv[i].body = plain_resolved(n)}

\* C34: a message whose body is "Issue N resolved" is no command: it makes no
\* remote call and returns Ok at once, also from an admin and in the thread of
\* a tracked issue; and every message makes at most one confirmation reply,
\* which only a message that is not itself a confirmation makes.
C34_NoFeedbackLoop ==
    /\ \A i \in Echoes :
          /\ inv[i].command = None
          /\ EffectsBy(i) = {}
          /\ ReturnedOk(i)
    /\ \A i \in Invs :
          inv[i].kind = "message"
          => /\ Cardinality(Calls(i, "send_thread_reply")) <= 1
             /\ Calls(i, "send_thread_reply") # {} => i \notin Echoes

\* C34 witness: a confirmation was delivered back, from an admin and in the
\* thread of the tracked issue it confirms, and was handled
C34_Witness ==
    \E i \in Echoes : \E k \in ConfirmationsSent :
        /\ inv[i].sender \in admin_users
        /\ inv[i].body = effects[k].text
        /\ inv[i].relates_to = Thread(effects[k].target)
        /\ TrackedBy(effects[k].target) # <<>>
        /\ inv[i].pc = "done"


====
